---- MODULE Spec2Model ----
(***************************************************************************)
(* Model of Receivers/unix/coreaudio.c: the ring buffer ca_data shared by  *)
(* coreaudio_output_send (producer) and audio_queue_output_callback        *)
(* (consumer), and coreaudio_output_init.                                  *)
(*                                                                         *)
(* The two buffer sizes are scaled down from the source's 35280 and 8820   *)
(* bytes to the configuration of the specification's concrete scenario     *)
(* (capacity 16, block 4); the ratio SRC_BUF_SIZE = 4 * AQ_BUF_SIZE and    *)
(* AQ_BUF_COUNT = 2 are those of the source.                               *)
(***************************************************************************)
EXTENDS Integers, Sequences, FiniteSets, TLC

\* coreaudio.c:13  #define SRC_BUF_SIZE 35280   (scaled)
SRC_BUF_SIZE == 16
\* coreaudio.c:10  #define AQ_BUF_SIZE 8820     (scaled)
AQ_BUF_SIZE == 4
\* coreaudio.c:7   #define AQ_BUF_COUNT 2
AQ_BUF_COUNT == 2
\* The cursors and sizes are unsigned int (lines 20-21, 38-39): their arithmetic
\* wraps.  TLC's integers are 32-bit signed, so the modulus is 2^30 here instead
\* of 2^32; as in the source it exceeds every size by orders of magnitude, so a
\* subtraction that goes below zero yields a value larger than any buffer.
UINT_MOD == 1073741824

\* Bounds of the exploration
MaxSends == 2
MaxFeeds == 7
\* Chunk sizes tried: empty, one byte, just under a block, a block, two blocks,
\* just under the capacity, the capacity, and more than the capacity
ChunkSizes == {0, 1, AQ_BUF_SIZE - 1, AQ_BUF_SIZE, 2 * AQ_BUF_SIZE,
               SRC_BUF_SIZE - 2, SRC_BUF_SIZE, SRC_BUF_SIZE + AQ_BUF_SIZE}

\* A byte of memory that was never written (malloc'ed block contents)
Garbage == -1

VARIABLES
  source_buffer,        \* ca_data.source_buffer : [0..SRC_BUF_SIZE-1 -> byte]
  source_buffer_start,  \* ca_data.source_buffer_start
  source_buffer_end,    \* ca_data.source_buffer_end
  buffers,              \* ca_data.buffers[i] : [data, capacity, size], or unallocated
  trace,                \* calls made on the AudioQueue and callback invocations, in order
  phase,                \* "uninit" | "running" | "failed" | "crashed"
  last,                 \* what the last handler did (its locals and return value)
  sent,                 \* number of bytes handed to coreaudio_output_send so far
  sends,                \* number of coreaudio_output_send calls
  feeds,                \* number of callbacks made by the device
  ref,                  \* reference unbounded FIFO holding the unread bytes
  sinceDrain,           \* bytes ingested since ref was last empty after a feed
  overflowed,           \* sinceDrain has exceeded SRC_BUF_SIZE at some point
  cb,                   \* the callback running on the queue's thread: position and locals
  snd                   \* the coreaudio_output_send running on the receiver's thread

vars == <<source_buffer, source_buffer_start, source_buffer_end, buffers, trace,
          phase, last, sent, sends, feeds, ref, sinceDrain, overflowed, cb, snd>>

----------------------------------------------------------------------------
\* Unsigned arithmetic (wraps modulo UINT_MOD)
U32(x) == x % UINT_MOD

Min(a, b) == IF a < b THEN a ELSE b

\* memcpy(dst + doff, src + soff, n) on byte arrays indexed from 0; a read outside
\* src yields an unspecified byte, a write outside dst is dropped
Memcpy(dst, doff, src, soff, n) ==
  [i \in DOMAIN dst |->
     IF doff <= i /\ i < doff + n
       THEN (IF (soff + i - doff) \in DOMAIN src THEN src[soff + i - doff] ELSE Garbage)
       ELSE dst[i]]

\* memset(dst + doff, 0, n)
Memset0(dst, doff, n) ==
  [i \in DOMAIN dst |-> IF doff <= i /\ i < doff + n THEN 0 ELSE dst[i]]

\* whether [off, off+n) lies inside an array of the given length
InBounds(off, n, len) == n = 0 \/ (off >= 0 /\ off + n <= len)

\* whether the unsigned subtraction a - b goes below zero (and so wraps)
Underflows(a, b) == a < b

ZeroStorage == [i \in 0..(SRC_BUF_SIZE - 1) |-> 0]

----------------------------------------------------------------------------
\* audio_queue_output_callback, lines 37-84.  A frame f holds ca_data's ring
\* fields (buf, start, end), the block (data) and the locals.

Frame(buf, start, end, data, capacity) ==
  [buf |-> buf, start |-> start, end |-> end, data |-> data,
   wanted |-> capacity, copied |-> 0, copyA |-> 0, copyB |-> 0, filled |-> 0,
   oob |-> FALSE, wrapped |-> FALSE]

\* Part 1 - current position to the end of the buffer (lines 43-52)
Part1(f) ==
  LET buffer_end == IF f.start < f.end THEN f.end ELSE SRC_BUF_SIZE
      available_size == U32(buffer_end - f.start)
      copy_size == IF available_size > f.wanted THEN f.wanted ELSE available_size
  IN [f EXCEPT !.data = Memcpy(f.data, f.copied, f.buf, f.start, copy_size),
               !.start = U32(f.start + copy_size),
               !.wanted = U32(f.wanted - copy_size),
               !.copied = U32(f.copied + copy_size),
               !.copyA = copy_size,
               !.oob = f.oob \/ ~InBounds(f.start, copy_size, SRC_BUF_SIZE)
                             \/ ~InBounds(f.copied, copy_size, AQ_BUF_SIZE),
               !.wrapped = f.wrapped \/ Underflows(buffer_end, f.start)
                                     \/ Underflows(f.wanted, copy_size)]

\* WrapReset as it would be without lines 55-61: the read position is left at
\* the end of the ring
WrapReset_NoReset(f) == f

\* WrapReset as it would be if line 58 did not test source_buffer_end: the write
\* position is reset whenever the read position wraps
WrapReset_ResetsEnd(f) ==
  IF f.start = SRC_BUF_SIZE
    THEN [f EXCEPT !.start = 0, !.end = 0]
    ELSE f

\* Reset of the read position at the end of the ring (lines 55-61)
WrapReset(f) ==
  IF f.start = SRC_BUF_SIZE
    THEN [f EXCEPT !.start = 0,
                   !.end = IF f.end = SRC_BUF_SIZE THEN 0 ELSE f.end]
    ELSE f

\* Part 2 as it would be without the second copy of lines 64-72
Part2_Skipped(f) == f

\* Part 2 - copy from the beginning of the buffer (lines 64-72)
Part2(f) ==
  IF f.wanted > 0 /\ f.start < f.end
    THEN LET available_size == U32(f.end - f.start)
             copy_size == IF available_size > f.wanted THEN f.wanted ELSE available_size
         IN [f EXCEPT !.data = Memcpy(f.data, f.copied, f.buf, f.start, copy_size),
                      !.start = U32(f.start + copy_size),
                      !.wanted = U32(f.wanted - copy_size),
                      !.copied = U32(f.copied + copy_size),
                      !.copyB = copy_size,
                      !.oob = f.oob \/ ~InBounds(f.start, copy_size, SRC_BUF_SIZE)
                                    \/ ~InBounds(f.copied, copy_size, AQ_BUF_SIZE),
                      !.wrapped = f.wrapped \/ Underflows(f.end, f.start)
                                            \/ Underflows(f.wanted, copy_size)]
    ELSE f

\* Fill as it would be without the memset of line 79: the gap is left as it was
Fill_NoSilence(f) == f

\* Fill the gap with silence (lines 78-81)
Fill(f) ==
  IF f.wanted > 0
    THEN [f EXCEPT !.data = Memset0(f.data, f.copied, f.wanted),
                   !.filled = f.wanted,
                   !.oob = f.oob \/ ~InBounds(f.copied, f.wanted, AQ_BUF_SIZE)]
    ELSE f

\* buffer->mAudioDataByteSize = buffer->mAudioDataBytesCapacity (line 83)
ValidSize(capacity) == capacity

\* The body of the callback up to the enqueue
CallbackBody(buf, start, end, block) ==
  Fill(Part2(WrapReset(Part1(Frame(buf, start, end, block.data, block.capacity)))))

\* CallbackEvents as it would be without the AudioQueueEnqueueBuffer of line 84
CallbackEvents_NoEnqueue(i, f, capacity) ==
  << [ev |-> "callback", buf |-> i, data |-> f.data, size |-> 0] >>

\* The events one callback invocation on buffer i adds to the trace: the invocation
\* itself and the single AudioQueueEnqueueBuffer of line 84
CallbackEvents(i, f, capacity) ==
  << [ev |-> "callback", buf |-> i, data |-> f.data, size |-> 0],
     [ev |-> "enqueue", buf |-> i, data |-> f.data, size |-> ValidSize(capacity)] >>

\* The buffer the device hands back next: AudioQueue plays buffers in the order they
\* were enqueued, and every callback enqueues the buffer it was given
DeviceNextBuffer == feeds % AQ_BUF_COUNT

\* Unread bytes as the source computes them for its log line (lines 32-33)
DataInBuffer(start, end) ==
  LET d == U32(SRC_BUF_SIZE + end - start)
  IN IF d >= SRC_BUF_SIZE THEN U32(d - SRC_BUF_SIZE) ELSE d

----------------------------------------------------------------------------
\* coreaudio_output_send, lines 133-154.  A state s of the copy loop holds the ring
\* fields it touches (buf, end), the chunk (audio, size) and the locals.

SendState(buf, end, audio, size) ==
  [buf |-> buf, end |-> end, audio |-> audio, size |-> size, copied |-> 0,
   iters |-> 0, minCopy |-> UINT_MOD, diverged |-> FALSE, oob |-> FALSE,
   wrapped |-> FALSE]

\* SendIter as it would be without the wrap of lines 137-139: the write position
\* stays at the end of the ring
SendIter_NoWrap(s) ==
  LET left_size == U32(s.size - s.copied)
      buffer_available == U32(SRC_BUF_SIZE - s.end)
      copy_size == IF left_size < buffer_available THEN left_size ELSE buffer_available
  IN [s EXCEPT !.buf = Memcpy(s.buf, s.end, s.audio, s.copied, copy_size),
               !.copied = U32(s.copied + copy_size),
               !.end = U32(s.end + copy_size),
               !.iters = s.iters + 1,
               !.minCopy = Min(s.minCopy, copy_size),
               !.diverged = (copy_size = 0),
               !.oob = s.oob \/ ~InBounds(s.end, copy_size, SRC_BUF_SIZE)
                             \/ ~InBounds(s.copied, copy_size, s.size),
               !.wrapped = s.wrapped \/ Underflows(s.size, s.copied)
                                     \/ Underflows(SRC_BUF_SIZE, s.end)]

\* SendIter as it would be if line 143 copied from data->audio instead of
\* data->audio + copied_size
SendIter_NoOffset(s) ==
  LET end0 == IF s.end = SRC_BUF_SIZE THEN 0 ELSE s.end
      left_size == U32(s.size - s.copied)
      buffer_available == U32(SRC_BUF_SIZE - end0)
      copy_size == IF left_size < buffer_available THEN left_size ELSE buffer_available
  IN [s EXCEPT !.buf = Memcpy(s.buf, end0, s.audio, 0, copy_size),
               !.copied = U32(s.copied + copy_size),
               !.end = U32(end0 + copy_size),
               !.iters = s.iters + 1,
               !.minCopy = Min(s.minCopy, copy_size),
               !.diverged = (copy_size = 0),
               !.oob = s.oob \/ ~InBounds(end0, copy_size, SRC_BUF_SIZE)
                             \/ ~InBounds(0, copy_size, s.size),
               !.wrapped = s.wrapped \/ Underflows(s.size, s.copied)
                                     \/ Underflows(SRC_BUF_SIZE, end0)]

\* SendIter as it would be if line 142 did not limit copy_size to the room left
\* before the end of the ring
SendIter_NoClamp(s) ==
  LET end0 == IF s.end = SRC_BUF_SIZE THEN 0 ELSE s.end
      left_size == U32(s.size - s.copied)
      copy_size == left_size
  IN [s EXCEPT !.buf = Memcpy(s.buf, end0, s.audio, s.copied, copy_size),
               !.copied = U32(s.copied + copy_size),
               !.end = U32(end0 + copy_size),
               !.iters = s.iters + 1,
               !.minCopy = Min(s.minCopy, copy_size),
               !.diverged = (copy_size = 0),
               !.oob = s.oob \/ ~InBounds(end0, copy_size, SRC_BUF_SIZE)
                             \/ ~InBounds(s.copied, copy_size, s.size),
               !.wrapped = s.wrapped \/ Underflows(s.size, s.copied)
                                     \/ Underflows(SRC_BUF_SIZE, end0)]

\* One iteration of the while loop (lines 137-145).  An iteration that copies
\* nothing leaves every variable as it was, so the loop never ends: diverged.
SendIter(s) ==
  LET end0 == IF s.end = SRC_BUF_SIZE THEN 0 ELSE s.end
      left_size == U32(s.size - s.copied)
      buffer_available == U32(SRC_BUF_SIZE - end0)
      copy_size == IF left_size < buffer_available THEN left_size ELSE buffer_available
  IN [s EXCEPT !.buf = Memcpy(s.buf, end0, s.audio, s.copied, copy_size),
               !.copied = U32(s.copied + copy_size),
               !.end = U32(end0 + copy_size),
               !.iters = s.iters + 1,
               !.minCopy = Min(s.minCopy, copy_size),
               !.diverged = (copy_size = 0),
               !.oob = s.oob \/ ~InBounds(end0, copy_size, SRC_BUF_SIZE)
                             \/ ~InBounds(s.copied, copy_size, s.size),
               !.wrapped = s.wrapped \/ Underflows(s.size, s.copied)
                                     \/ Underflows(SRC_BUF_SIZE, end0)]

\* SendLoop as it would be as a do-while: the body runs before the size is tested
RECURSIVE SendLoop_DoWhile(_)
SendLoop_DoWhile(s) ==
  LET t == SendIter(s)
  IN IF U32(t.size - t.copied) > 0 /\ ~t.diverged
       THEN SendLoop_DoWhile(t)
       ELSE t

\* while (data->audio_size - copied_size > 0) (line 134)
RECURSIVE SendLoop(_)
SendLoop(s) ==
  IF U32(s.size - s.copied) > 0 /\ ~s.diverged
    THEN SendLoop(SendIter(s))
    ELSE s

\* return 0 (line 154)
SendRet == 0

\* The chunk of n bytes handed in when `first - 1` bytes were handed in before:
\* the bytes are numbered in arrival order, so every byte is distinct and non-zero
Chunk(first, n) == [i \in 0..(n - 1) |-> first + i]

----------------------------------------------------------------------------
\* coreaudio_output_init, lines 95-125

\* InitRet as it would be if the result of AudioQueueStart were not checked
InitRet_StartIgnored(outcome) ==
  CASE outcome = "new" -> 1
    [] outcome = "alloc" -> 1
    [] OTHER -> 0

\* The code returned for each outcome (lines 107, 113, 122, 125)
InitRet(outcome) ==
  CASE outcome = "new" -> 1
    [] outcome = "alloc" -> 1
    [] outcome = "start" -> 1
    [] OTHER -> 0

\* A block as AudioQueueAllocateBuffer returns it (line 111): contents unwritten
NewBlock == [data |-> [i \in 0..(AQ_BUF_SIZE - 1) |-> Garbage],
             capacity |-> AQ_BUF_SIZE, size |-> 0]

Unallocated == [data |-> <<>>, capacity |-> 0, size |-> 0]

\* The for loop of lines 110-118 from index i on; failAt is the index of the
\* allocation that fails (AQ_BUF_COUNT: none fails).  st holds the ring cursors,
\* the blocks, the trace and whether the loop ran to its end.
RECURSIVE InitLoop(_, _, _)
InitLoop(i, st, failAt) ==
  IF i >= AQ_BUF_COUNT THEN st
  ELSE IF failAt = i
    THEN [st EXCEPT !.failed = TRUE,
                    !.trace = st.trace \o << [ev |-> "allocfail", buf |-> i] >>]
    ELSE LET f == CallbackBody(st.buf, st.start, st.end, NewBlock)
         IN InitLoop(i + 1,
              [st EXCEPT !.start = f.start, !.end = f.end,
                         !.unsafe = st.unsafe \/ f.oob \/ f.wrapped,
                         !.buffers = [st.buffers EXCEPT ![i] =
                            [data |-> f.data, capacity |-> AQ_BUF_SIZE,
                             size |-> ValidSize(AQ_BUF_SIZE)]],
                         !.trace = st.trace \o << [ev |-> "alloc", buf |-> i] >>
                                   \o CallbackEvents(i, f, AQ_BUF_SIZE)],
              failAt)

----------------------------------------------------------------------------
\* State of the process before coreaudio_output_init: ca_data is a static object,
\* so it starts zeroed (lines 15-22)
\* No callback in flight on the queue's thread (pc is the line about to execute)
CbIdle ==
  [pc |-> "idle", buf |-> 0, data |-> <<>>, wanted |-> 0, copied |-> 0,
   copyA |-> 0, copyB |-> 0, copy_size |-> 0, oob |-> FALSE, wrapped |-> FALSE,
   pre_start |-> 0, pre_end |-> 0, pre_buf |-> <<>>]

\* No coreaudio_output_send in flight on the receiver's thread
SndIdle ==
  [pc |-> "idle", audio |-> <<>>, size |-> 0, copied |-> 0, iters |-> 0,
   minCopy |-> UINT_MOD, copy_size |-> 0, end_read |-> 0, oob |-> FALSE,
   wrapped |-> FALSE, raced |-> FALSE, pre_start |-> 0, pre_end |-> 0,
   pre_buf |-> <<>>]

\* whether a call is between its first and its last step
InFlight(t) == t.pc \notin {"idle", "done"}

Init ==
  /\ source_buffer = ZeroStorage
  /\ source_buffer_start = 0
  /\ source_buffer_end = 0
  /\ buffers = [i \in 0..(AQ_BUF_COUNT - 1) |-> Unallocated]
  /\ trace = <<>>
  /\ phase = "uninit"
  /\ last = [op |-> "none"]
  /\ sent = 0
  /\ sends = 0
  /\ feeds = 0
  /\ ref = <<>>
  /\ sinceDrain = 0
  /\ overflowed = FALSE
  /\ cb = CbIdle
  /\ snd = SndIdle

\* coreaudio_output_init (lines 93-126).  newOk, failAt and startOk are the results
\* of AudioQueueNewOutput, of the AudioQueueAllocateBuffer calls and of
\* AudioQueueStart.
coreaudio_output_init(newOk, failAt, startOk) ==
  /\ phase = "uninit"
  /\ LET st0 == [buf |-> ZeroStorage, start |-> 0, end |-> 0,
                 buffers |-> buffers, failed |-> FALSE, unsafe |-> FALSE,
                 trace |-> << [ev |-> "new", ok |-> newOk] >>]
         st == IF newOk THEN InitLoop(0, st0, failAt) ELSE st0
         outcome == IF ~newOk THEN "new"
                    ELSE IF st.failed THEN "alloc"
                    ELSE IF ~startOk THEN "start"
                    ELSE "none"
         started == newOk /\ ~st.failed
     IN /\ source_buffer' = st.buf
        /\ source_buffer_start' = st.start
        /\ source_buffer_end' = st.end
        /\ buffers' = st.buffers
        /\ trace' = IF started
                      THEN st.trace \o << [ev |-> "start", ok |-> startOk] >>
                      ELSE st.trace
        /\ phase' = IF outcome = "none" THEN "running" ELSE "failed"
        /\ last' = [op |-> "init", outcome |-> outcome, ret |-> InitRet(outcome),
                    unsafe |-> st.unsafe]
  /\ UNCHANGED <<sent, sends, feeds, ref, sinceDrain, overflowed, cb, snd>>

\* coreaudio_output_send (lines 128-155) with a chunk of n bytes, run without
\* another call on ca_data in between
coreaudio_output_send(n) ==
  /\ phase = "running"
  /\ sends < MaxSends
  /\ snd.pc = "idle" /\ ~InFlight(cb)
  /\ LET audio == Chunk(sent + 1, n)
         s == SendLoop(SendState(source_buffer, source_buffer_end, audio, n))
     IN /\ source_buffer' = s.buf
        /\ source_buffer_end' = s.end
        /\ last' = [op |-> "send", n |-> n, ret |-> IF s.diverged THEN -1 ELSE SendRet,
                    iters |-> s.iters, minCopy |-> s.minCopy, copied |-> s.copied,
                    diverged |-> s.diverged, oob |-> s.oob, wrapped |-> s.wrapped,
                    audio |-> audio, pre_buf |-> source_buffer,
                    pre_start |-> source_buffer_start, pre_end |-> source_buffer_end]
        /\ trace' = Append(trace, [ev |-> "send", data |-> audio, size |-> n,
                       unread |-> DataInBuffer(source_buffer_start, source_buffer_end)])
        /\ ref' = ref \o [i \in 1..n |-> audio[i - 1]]
  /\ sent' = sent + n
  /\ sends' = sends + 1
  /\ sinceDrain' = sinceDrain + n
  /\ overflowed' = (overflowed \/ sinceDrain + n > SRC_BUF_SIZE)
  /\ UNCHANGED <<source_buffer_start, buffers, phase, feeds, cb, snd>>

\* audio_queue_output_callback (lines 30-91), invoked by the running queue with
\* the buffer it has finished playing, run without another call on ca_data in
\* between
audio_queue_output_callback ==
  /\ phase = "running"
  /\ feeds < MaxFeeds
  /\ ~InFlight(cb) /\ ~InFlight(snd)
  /\ LET i == DeviceNextBuffer
         f == CallbackBody(source_buffer, source_buffer_start, source_buffer_end,
                           buffers[i])
         ev == CallbackEvents(i, f, buffers[i].capacity)
         taken == Min(AQ_BUF_SIZE, Len(ref))
         rest == SubSeq(ref, taken + 1, Len(ref))
     IN /\ source_buffer_start' = f.start
        /\ source_buffer_end' = f.end
        /\ buffers' = [buffers EXCEPT ![i].data = f.data,
                                      ![i].size = ValidSize(buffers[i].capacity)]
        /\ trace' = trace \o ev
        /\ last' = [op |-> "callback", buf |-> i, copied |-> f.copied,
                    copyA |-> f.copyA, copyB |-> f.copyB, filled |-> f.filled,
                    wanted |-> f.wanted, data |-> f.data, oob |-> f.oob,
                    wrapped |-> f.wrapped, pre_buf |-> source_buffer,
                    enqueues |-> Cardinality({j \in 1..Len(ev) : ev[j].ev = "enqueue"}),
                    pre_start |-> source_buffer_start, pre_end |-> source_buffer_end]
        /\ ref' = rest
        /\ sinceDrain' = IF rest = <<>> THEN 0 ELSE sinceDrain
  /\ feeds' = feeds + 1
  /\ UNCHANGED <<source_buffer, phase, sent, sends, overflowed, cb, snd>>

Next ==
  \/ \E newOk \in BOOLEAN, failAt \in 0..AQ_BUF_COUNT, startOk \in BOOLEAN :
       coreaudio_output_init(newOk, failAt, startOk)
  \/ \E n \in ChunkSizes : coreaudio_output_send(n)
  \/ audio_queue_output_callback

Spec == Init /\ [][Next]_vars

----------------------------------------------------------------------------
\* The running queue goes on invoking the callback for as long as the device
\* plays (AudioQueueNewOutput registers it at line 105, every callback re-enqueues
\* its block at line 84).  Past MaxFeeds invocations the history of enqueued
\* blocks is no longer extended, and feeds only keeps the rotation of the blocks.
audio_queue_output_callback_playing ==
  /\ phase = "running"
  /\ feeds >= MaxFeeds
  /\ LET i == DeviceNextBuffer
         f == CallbackBody(source_buffer, source_buffer_start, source_buffer_end,
                           buffers[i])
         ev == CallbackEvents(i, f, buffers[i].capacity)
         taken == Min(AQ_BUF_SIZE, Len(ref))
         rest == SubSeq(ref, taken + 1, Len(ref))
     IN /\ source_buffer_start' = f.start
        /\ source_buffer_end' = f.end
        /\ buffers' = [buffers EXCEPT ![i].data = f.data,
                                      ![i].size = ValidSize(buffers[i].capacity)]
        /\ last' = [op |-> "callback", buf |-> i, copied |-> f.copied,
                    copyA |-> f.copyA, copyB |-> f.copyB, filled |-> f.filled,
                    wanted |-> f.wanted, data |-> f.data, oob |-> f.oob,
                    wrapped |-> f.wrapped, pre_buf |-> source_buffer,
                    enqueues |-> Cardinality({j \in 1..Len(ev) : ev[j].ev = "enqueue"}),
                    pre_start |-> source_buffer_start, pre_end |-> source_buffer_end]
        /\ ref' = rest
        /\ sinceDrain' = IF rest = <<>> THEN 0 ELSE sinceDrain
  /\ feeds' = IF feeds + 1 < MaxFeeds + AQ_BUF_COUNT
                THEN feeds + 1
                ELSE feeds + 1 - AQ_BUF_COUNT
  /\ UNCHANGED <<source_buffer, trace, phase, sent, sends, overflowed, cb, snd>>

\* A callback step, whatever the number of earlier invocations: the callback is
\* the only operation that changes feeds, and it can run whenever the queue is
\* started.  (Stated on feeds alone so that the fairness condition does not have
\* to evaluate the callback body.)
Feeder ==
  /\ phase = "running"
  /\ feeds' \in 0..(MaxFeeds + AQ_BUF_COUNT)
  /\ feeds' # feeds

NextLive ==
  \/ \E newOk \in BOOLEAN, failAt \in 0..AQ_BUF_COUNT, startOk \in BOOLEAN :
       coreaudio_output_init(newOk, failAt, startOk)
  \/ \E n \in ChunkSizes : coreaudio_output_send(n)
  \/ audio_queue_output_callback
  \/ audio_queue_output_callback_playing

\* The producer may stop at any time (and stops after MaxSends chunks); a started
\* queue keeps invoking the callback.
SpecLive == Init /\ [][NextLive]_vars /\ WF_feeds(Feeder)

----------------------------------------------------------------------------
\* The two threads (line 29: "TODO: Deal with thread safety").  The callback runs
\* on the audio queue's thread, coreaudio_output_send on the receiver's thread,
\* and ca_data is shared without a lock.  One callback and one send are run step
\* by step here, a step being one access to a shared field of ca_data together
\* with the local computation that follows it.  source_buffer_start is written
\* by the callback only, so the callback's reads of it are not separate steps.

\* the frame of the stepwise callback, as the operators of the callback expect it
CbFrame ==
  [buf |-> source_buffer, start |-> source_buffer_start, end |-> source_buffer_end,
   data |-> cb.data, wanted |-> cb.wanted, copied |-> cb.copied,
   copyA |-> cb.copyA, copyB |-> cb.copyB, filled |-> 0,
   oob |-> cb.oob, wrapped |-> cb.wrapped]

\* lines 45-46 (and 65-66): available_size and copy_size from the value of
\* buffer_end just read
CbSizes(c, buffer_end) ==
  LET available_size == U32(buffer_end - source_buffer_start)
  IN [c EXCEPT !.copy_size = IF available_size > c.wanted THEN c.wanted
                             ELSE available_size,
               !.wrapped = c.wrapped \/ Underflows(buffer_end, source_buffer_start)]

\* lines 47-50 (and 67-70): the memcpy out of the storage and the updates of the
\* locals; part is "A" for Part 1 and "B" for Part 2
CbCopy(c, part) ==
  [c EXCEPT !.data = Memcpy(c.data, c.copied, source_buffer, source_buffer_start,
                            c.copy_size),
            !.wanted = U32(c.wanted - c.copy_size),
            !.copied = U32(c.copied + c.copy_size),
            !.copyA = IF part = "A" THEN c.copy_size ELSE c.copyA,
            !.copyB = IF part = "B" THEN c.copy_size ELSE c.copyB,
            !.oob = c.oob \/ ~InBounds(source_buffer_start, c.copy_size, SRC_BUF_SIZE)
                          \/ ~InBounds(c.copied, c.copy_size, AQ_BUF_SIZE)
                          \/ c.copy_size > c.wanted]

\* A memcpy that reads outside the storage is undefined: the thread may fault, or
\* it reads whatever lies behind the array and goes on.
AfterCopy(c) ==
  IF ~InBounds(source_buffer_start, c.copy_size, SRC_BUF_SIZE)
    THEN {"running", "crashed"}
    ELSE {"running"}

\* the queue invokes the callback with the next buffer (lines 30, 37-39)
cb_enter ==
  /\ phase = "running"
  /\ cb.pc = "idle"
  /\ feeds < MaxFeeds
  /\ cb' = [CbIdle EXCEPT !.pc = "L44",
                          !.buf = DeviceNextBuffer,
                          !.data = buffers[DeviceNextBuffer].data,
                          !.wanted = buffers[DeviceNextBuffer].capacity,
                          !.pre_start = source_buffer_start,
                          !.pre_end = source_buffer_end,
                          !.pre_buf = source_buffer]
  /\ snd' = IF InFlight(snd) THEN [snd EXCEPT !.raced = TRUE] ELSE snd
  /\ UNCHANGED <<source_buffer, source_buffer_start, source_buffer_end, buffers,
                 trace, phase, last, sent, sends, feeds, ref, sinceDrain, overflowed>>

\* line 44, the comparison source_buffer_start < source_buffer_end
cb_L44 ==
  /\ phase = "running"
  /\ cb.pc = "L44"
  /\ cb' = IF source_buffer_start < source_buffer_end
             THEN [cb EXCEPT !.pc = "L44r"]
             ELSE [CbSizes(cb, SRC_BUF_SIZE) EXCEPT !.pc = "L47"]
  /\ UNCHANGED <<source_buffer, source_buffer_start, source_buffer_end, buffers,
                 trace, phase, last, sent, sends, feeds, ref, sinceDrain, overflowed,
                 snd>>

\* line 44, the second read of source_buffer_end (the value of buffer_end), and
\* lines 45-46
cb_L44r ==
  /\ phase = "running"
  /\ cb.pc = "L44r"
  /\ cb' = [CbSizes(cb, source_buffer_end) EXCEPT !.pc = "L47"]
  /\ UNCHANGED <<source_buffer, source_buffer_start, source_buffer_end, buffers,
                 trace, phase, last, sent, sends, feeds, ref, sinceDrain, overflowed,
                 snd>>

\* lines 47-50
cb_L47 ==
  /\ phase = "running"
  /\ cb.pc = "L47"
  /\ cb' = [CbCopy(cb, "A") EXCEPT !.pc = "L55"]
  /\ source_buffer_start' = U32(source_buffer_start + cb.copy_size)
  /\ phase' \in AfterCopy(cb)
  /\ UNCHANGED <<source_buffer, source_buffer_end, buffers, trace, last, sent,
                 sends, feeds, ref, sinceDrain, overflowed, snd>>

\* lines 55-58: reset of the read position, and the test of source_buffer_end
cb_L55 ==
  /\ phase = "running"
  /\ cb.pc = "L55"
  /\ IF source_buffer_start = SRC_BUF_SIZE
       THEN /\ source_buffer_start' = 0
            /\ cb' = [cb EXCEPT !.pc = IF source_buffer_end = SRC_BUF_SIZE
                                         THEN "L59" ELSE "L64"]
       ELSE /\ cb' = [cb EXCEPT !.pc = "L64"]
            /\ UNCHANGED source_buffer_start
  /\ UNCHANGED <<source_buffer, source_buffer_end, buffers, trace, phase, last,
                 sent, sends, feeds, ref, sinceDrain, overflowed, snd>>

\* line 59: ca_data.source_buffer_end = 0
cb_L59 ==
  /\ phase = "running"
  /\ cb.pc = "L59"
  /\ source_buffer_end' = 0
  /\ cb' = [cb EXCEPT !.pc = "L64"]
  /\ UNCHANGED <<source_buffer, source_buffer_start, buffers, trace, phase, last,
                 sent, sends, feeds, ref, sinceDrain, overflowed, snd>>

\* line 64: wanted_size > 0 && source_buffer_start < source_buffer_end
cb_L64 ==
  /\ phase = "running"
  /\ cb.pc = "L64"
  /\ cb' = [cb EXCEPT !.pc = IF cb.wanted > 0 /\ source_buffer_start < source_buffer_end
                               THEN "L65" ELSE "L78"]
  /\ UNCHANGED <<source_buffer, source_buffer_start, source_buffer_end, buffers,
                 trace, phase, last, sent, sends, feeds, ref, sinceDrain, overflowed,
                 snd>>

\* lines 65-66: source_buffer_end is read again for available_size
cb_L65 ==
  /\ phase = "running"
  /\ cb.pc = "L65"
  /\ cb' = [CbSizes(cb, source_buffer_end) EXCEPT !.pc = "L67"]
  /\ UNCHANGED <<source_buffer, source_buffer_start, source_buffer_end, buffers,
                 trace, phase, last, sent, sends, feeds, ref, sinceDrain, overflowed,
                 snd>>

\* lines 67-70
cb_L67 ==
  /\ phase = "running"
  /\ cb.pc = "L67"
  /\ cb' = [CbCopy(cb, "B") EXCEPT !.pc = "L78"]
  /\ source_buffer_start' = U32(source_buffer_start + cb.copy_size)
  /\ phase' \in AfterCopy(cb)
  /\ UNCHANGED <<source_buffer, source_buffer_end, buffers, trace, last, sent,
                 sends, feeds, ref, sinceDrain, overflowed, snd>>

\* lines 78-84: silence, valid size, enqueue; the callback returns
cb_L78 ==
  /\ phase = "running"
  /\ cb.pc = "L78"
  /\ LET i == cb.buf
         f == Fill(CbFrame)
         ev == CallbackEvents(i, f, buffers[i].capacity)
         taken == Min(AQ_BUF_SIZE, Len(ref))
         rest == SubSeq(ref, taken + 1, Len(ref))
     IN /\ buffers' = [buffers EXCEPT ![i].data = f.data,
                                      ![i].size = ValidSize(buffers[i].capacity)]
        /\ trace' = trace \o ev
        /\ last' = [op |-> "callback", buf |-> i, copied |-> f.copied,
                    copyA |-> f.copyA, copyB |-> f.copyB, filled |-> f.filled,
                    wanted |-> f.wanted, data |-> f.data, oob |-> f.oob,
                    wrapped |-> f.wrapped, pre_buf |-> cb.pre_buf,
                    enqueues |-> Cardinality({j \in 1..Len(ev) : ev[j].ev = "enqueue"}),
                    pre_start |-> cb.pre_start, pre_end |-> cb.pre_end]
        /\ cb' = [cb EXCEPT !.pc = "done", !.data = f.data, !.oob = f.oob]
        /\ ref' = rest
        /\ sinceDrain' = IF rest = <<>> THEN 0 ELSE sinceDrain
  /\ feeds' = feeds + 1
  /\ UNCHANGED <<source_buffer, source_buffer_start, source_buffer_end, phase,
                 sent, sends, overflowed, snd>>

\* line 134: the position after the loop test, with copied bytes of size done
SndLoopTest(size, copied) ==
  IF U32(size - copied) > 0 THEN "L137" ELSE "L154"

\* the receiver calls coreaudio_output_send with a chunk of n bytes (lines 128-134)
snd_enter(n) ==
  /\ phase = "running"
  /\ snd.pc = "idle"
  /\ sends < MaxSends
  /\ LET audio == Chunk(sent + 1, n)
     IN /\ snd' = [SndIdle EXCEPT !.pc = SndLoopTest(n, 0),
                                  !.audio = audio,
                                  !.size = n,
                                  !.raced = InFlight(cb),
                                  !.pre_start = source_buffer_start,
                                  !.pre_end = source_buffer_end,
                                  !.pre_buf = source_buffer]
        /\ trace' = Append(trace, [ev |-> "send", data |-> audio, size |-> n,
                       unread |-> DataInBuffer(source_buffer_start, source_buffer_end)])
        /\ ref' = ref \o [i \in 1..n |-> audio[i - 1]]
  /\ sent' = sent + n
  /\ sends' = sends + 1
  /\ sinceDrain' = sinceDrain + n
  /\ overflowed' = (overflowed \/ sinceDrain + n > SRC_BUF_SIZE)
  /\ UNCHANGED <<source_buffer, source_buffer_start, source_buffer_end, buffers,
                 phase, last, feeds, cb>>

\* line 137: the test source_buffer_end == SRC_BUF_SIZE
snd_L137 ==
  /\ phase = "running"
  /\ snd.pc = "L137"
  /\ snd' = [snd EXCEPT !.pc = IF source_buffer_end = SRC_BUF_SIZE
                                 THEN "L138" ELSE "L140"]
  /\ UNCHANGED <<source_buffer, source_buffer_start, source_buffer_end, buffers,
                 trace, phase, last, sent, sends, feeds, ref, sinceDrain, overflowed,
                 cb>>

\* line 138: ca_data.source_buffer_end = 0
snd_L138 ==
  /\ phase = "running"
  /\ snd.pc = "L138"
  /\ source_buffer_end' = 0
  /\ snd' = [snd EXCEPT !.pc = "L140"]
  /\ UNCHANGED <<source_buffer, source_buffer_start, buffers, trace, phase, last,
                 sent, sends, feeds, ref, sinceDrain, overflowed, cb>>

\* lines 140-142: left_size, buffer_available (a read of source_buffer_end) and
\* copy_size
snd_L140 ==
  /\ phase = "running"
  /\ snd.pc = "L140"
  /\ LET left_size == U32(snd.size - snd.copied)
         buffer_available == U32(SRC_BUF_SIZE - source_buffer_end)
     IN snd' = [snd EXCEPT !.pc = "L143",
                           !.copy_size = IF left_size < buffer_available
                                           THEN left_size ELSE buffer_available,
                           !.wrapped = snd.wrapped
                                         \/ Underflows(snd.size, snd.copied)
                                         \/ Underflows(SRC_BUF_SIZE, source_buffer_end)]
  /\ UNCHANGED <<source_buffer, source_buffer_start, source_buffer_end, buffers,
                 trace, phase, last, sent, sends, feeds, ref, sinceDrain, overflowed,
                 cb>>

\* lines 143-144: the memcpy to source_buffer + source_buffer_end (another read
\* of source_buffer_end) and copied_size += copy_size
snd_L143 ==
  /\ phase = "running"
  /\ snd.pc = "L143"
  /\ source_buffer' = Memcpy(source_buffer, source_buffer_end, snd.audio, snd.copied,
                             snd.copy_size)
  /\ snd' = [snd EXCEPT !.pc = "L145",
                        !.copied = U32(snd.copied + snd.copy_size),
                        !.minCopy = Min(snd.minCopy, snd.copy_size),
                        !.oob = snd.oob
                                  \/ ~InBounds(source_buffer_end, snd.copy_size,
                                               SRC_BUF_SIZE)
                                  \/ ~InBounds(snd.copied, snd.copy_size, snd.size)]
  /\ UNCHANGED <<source_buffer_start, source_buffer_end, buffers, trace, phase,
                 last, sent, sends, feeds, ref, sinceDrain, overflowed, cb>>

\* line 145, source_buffer_end += copy_size: the read
snd_L145 ==
  /\ phase = "running"
  /\ snd.pc = "L145"
  /\ snd' = [snd EXCEPT !.pc = "L145w", !.end_read = source_buffer_end]
  /\ UNCHANGED <<source_buffer, source_buffer_start, source_buffer_end, buffers,
                 trace, phase, last, sent, sends, feeds, ref, sinceDrain, overflowed,
                 cb>>

\* line 145, source_buffer_end += copy_size: the write; then the loop test
snd_L145w ==
  /\ phase = "running"
  /\ snd.pc = "L145w"
  /\ source_buffer_end' = U32(snd.end_read + snd.copy_size)
  /\ snd' = [snd EXCEPT !.pc = SndLoopTest(snd.size, snd.copied),
                        !.iters = snd.iters + 1]
  /\ UNCHANGED <<source_buffer, source_buffer_start, buffers, trace, phase, last,
                 sent, sends, feeds, ref, sinceDrain, overflowed, cb>>

\* line 154: return 0
snd_L154 ==
  /\ phase = "running"
  /\ snd.pc = "L154"
  /\ last' = [op |-> "send", n |-> snd.size, ret |-> SendRet,
              iters |-> snd.iters, minCopy |-> snd.minCopy, copied |-> snd.copied,
              diverged |-> FALSE, oob |-> snd.oob, wrapped |-> snd.wrapped,
              audio |-> snd.audio, pre_buf |-> snd.pre_buf,
              pre_start |-> snd.pre_start, pre_end |-> snd.pre_end]
  /\ snd' = [snd EXCEPT !.pc = "done"]
  /\ UNCHANGED <<source_buffer, source_buffer_start, source_buffer_end, buffers,
                 trace, phase, sent, sends, feeds, ref, sinceDrain, overflowed, cb>>

\* One callback and one send step by step, among calls that run one after the
\* other
NextConc ==
  \/ \E newOk \in BOOLEAN, failAt \in 0..AQ_BUF_COUNT, startOk \in BOOLEAN :
       coreaudio_output_init(newOk, failAt, startOk)
  \/ \E n \in ChunkSizes : coreaudio_output_send(n)
  \/ audio_queue_output_callback
  \/ cb_enter
  \/ cb_L44
  \/ cb_L44r
  \/ cb_L47
  \/ cb_L55
  \/ cb_L59
  \/ cb_L64
  \/ cb_L65
  \/ cb_L67
  \/ cb_L78
  \/ \E n \in ChunkSizes : snd_enter(n)
  \/ snd_L137
  \/ snd_L138
  \/ snd_L140
  \/ snd_L143
  \/ snd_L145
  \/ snd_L145w
  \/ snd_L154

SpecConc == Init /\ [][NextConc]_vars

----------------------------------------------------------------------------
\* Vocabulary of the properties

Capacity == SRC_BUF_SIZE
BlockSize == AQ_BUF_SIZE

AllZero(d) == \A i \in DOMAIN d : d[i] = 0

\* the bytes of the array d from index i on, as a sequence
RECURSIVE BytesFrom(_, _)
BytesFrom(d, i) == IF i \in DOMAIN d THEN <<d[i]>> \o BytesFrom(d, i + 1) ELSE <<>>

Bytes(d) == BytesFrom(d, 0)

\* the blocks handed to AudioQueueEnqueueBuffer among the events evs, in order
EnqueuedIn(evs) == SelectSeq(evs, LAMBDA e : e.ev = "enqueue")

\* the non-silence bytes of the blocks enqueued among the events evs, concatenated
RECURSIVE NonSilence(_)
NonSilence(evs) ==
  IF evs = <<>> THEN <<>>
  ELSE (IF Head(evs).ev = "enqueue"
          THEN SelectSeq(Bytes(Head(evs).data), LAMBDA b : b # 0)
          ELSE <<>>) \o NonSilence(Tail(evs))

\* all bytes ingested so far, in order (the chunks number their bytes 1, 2, ...)
Ingested == [i \in 1..sent |-> i]

IsPrefix(a, b) == Len(a) <= Len(b) /\ \A i \in 1..Len(a) : a[i] = b[i]

\* index in the trace of the last coreaudio_output_send, 0 if there is none
LastSendAt ==
  LET at == {j \in 1..Len(trace) : trace[j].ev = "send"}
  IN IF at = {} THEN 0 ELSE CHOOSE j \in at : \A k \in at : k <= j

\* index in the trace of the AudioQueueStart call, 0 if there is none
StartAt ==
  LET at == {j \in 1..Len(trace) : trace[j].ev = "start"}
  IN IF at = {} THEN 0 ELSE CHOOSE j \in at : TRUE

----------------------------------------------------------------------------
\* C1 - Capacity invariant: as long as the bytes ingested since the last full
\* drain never exceeded the capacity, the non-silence bytes handed to the device
\* are the ingested bytes in order, none twice (a prefix of the ingested bytes at
\* any time), none missing (all of them once the unread data is drained).
C1_CapacityInvariant ==
  ~overflowed =>
     /\ IsPrefix(NonSilence(trace), Ingested)
     /\ (ref = <<>> => NonSilence(trace) = Ingested)

\* C2 - Empty buffer yields silence: a callback entered with source_buffer_start
\* equal to source_buffer_end copies nothing from storage and enqueues a block of
\* zero bytes only.
C2_EmptyYieldsSilence ==
  (last.op = "callback" /\ last.pre_start = last.pre_end) =>
     (last.copied = 0 /\ AllZero(last.data))

\* C3 - Underrun fill: a callback entered with k = (C + end - start) mod C unread
\* bytes, k < B, enqueues those k bytes in order followed by B - k zero bytes and
\* advances the read cursor by k modulo C.
C3_UnderrunFill ==
  last.op = "callback" =>
     LET k == (Capacity + last.pre_end - last.pre_start) % Capacity
     IN k < BlockSize =>
          /\ \A i \in 0..(BlockSize - 1) :
               last.data[i] = IF i < k
                                THEN source_buffer[(last.pre_start + i) % Capacity]
                                ELSE 0
          /\ source_buffer_start = (last.pre_start + k) % Capacity

\* C4 - Overflow policy: after a chunk of n bytes larger than the free space was
\* ingested, the callbacks that follow (no further ingest) deliver the last
\* min(n, C) bytes of the chunk in order: what they have delivered so far agrees
\* with those bytes position by position.
C4_OverflowPolicy ==
  LastSendAt # 0 =>
     LET e == trace[LastSendAt]
         keep == Min(e.size, Capacity)
         recent == [i \in 1..keep |-> e.data[e.size - keep + i - 1]]
         got == NonSilence(SubSeq(trace, LastSendAt + 1, Len(trace)))
     IN e.size > Capacity - e.unread =>
          \A i \in 1..Min(Len(got), keep) : got[i] = recent[i]

\* C5 - Full block every period: every callback invocation writes all B bytes of
\* its block (bytes copied plus bytes zero-filled is B), sets the block's valid
\* size to its capacity B and enqueues the block exactly once.
C5_FullBlock ==
  /\ last.op = "callback" =>
       /\ last.copied + last.filled = BlockSize
       /\ last.copied = last.copyA + last.copyB
       /\ last.enqueues = 1
       /\ buffers[last.buf].size = BlockSize
       /\ buffers[last.buf].capacity = BlockSize
       /\ buffers[last.buf].data = last.data
  /\ \A j \in 1..Len(trace) :
       /\ trace[j].ev = "callback" =>
            /\ j < Len(trace)
            /\ trace[j + 1].ev = "enqueue"
            /\ trace[j + 1].buf = trace[j].buf
            /\ (j + 1 < Len(trace) => trace[j + 2].ev # "enqueue")
       /\ trace[j].ev = "enqueue" =>
            /\ j > 1 /\ trace[j - 1].ev = "callback"
            /\ trace[j].size = BlockSize
            /\ DOMAIN trace[j].data = 0..(BlockSize - 1)
            /\ \A i \in DOMAIN trace[j].data : trace[j].data[i] # Garbage

\* a callback that both copied real bytes and zero-filled a gap
C5_Witness ==
  last.op = "callback" /\ last.copied > 0 /\ last.filled > 0 /\ ~AllZero(last.data)

\* C6 - Concrete scenario (C = 16, B = 4): on the initialised core, ingest 1..8,
\* three callbacks give [1,2,3,4] [5,6,7,8] [0,0,0,0]; ingest 9..28, four
\* callbacks give [13..16] [17..20] [21..24] [25..28].
Scenario ==
  << [ev |-> "send", size |-> 8],
     [ev |-> "enqueue", data |-> <<1, 2, 3, 4>>],
     [ev |-> "enqueue", data |-> <<5, 6, 7, 8>>],
     [ev |-> "enqueue", data |-> <<0, 0, 0, 0>>],
     [ev |-> "send", size |-> 20],
     [ev |-> "enqueue", data |-> <<13, 14, 15, 16>>],
     [ev |-> "enqueue", data |-> <<17, 18, 19, 20>>],
     [ev |-> "enqueue", data |-> <<21, 22, 23, 24>>],
     [ev |-> "enqueue", data |-> <<25, 26, 27, 28>>] >>

C6_ConcreteScenario ==
  (Capacity = 16 /\ BlockSize = 4 /\ phase = "running") =>
     LET ops == SelectSeq(SubSeq(trace, StartAt + 1, Len(trace)),
                          LAMBDA e : e.ev \in {"send", "enqueue"})
         follows == /\ Len(ops) <= Len(Scenario)
                    /\ \A j \in 1..Len(ops) :
                         /\ ops[j].ev = Scenario[j].ev
                         /\ ops[j].ev = "send" => ops[j].size = Scenario[j].size
     IN follows =>
          \A j \in 1..Len(ops) :
             ops[j].ev = "enqueue" => Bytes(ops[j].data) = Scenario[j].data

\* C7 - Ingest always completes: every coreaudio_output_send ends its loop, each
\* iteration copies at least one byte, the bytes copied total the chunk size and
\* the call returns 0, whatever the size and however much unread data it overwrites.
C7_IngestCompletes ==
  last.op = "send" =>
     /\ ~last.diverged
     /\ last.copied = last.n
     /\ last.iters <= last.n
     /\ (last.iters > 0 => last.minCopy >= 1)
     /\ last.ret = 0

\* an ingest larger than the ring that overwrote unread data over several iterations
C7_Witness ==
  /\ last.op = "send"
  /\ last.n > Capacity
  /\ last.iters >= 3
  /\ last.n > Capacity - DataInBuffer(last.pre_start, last.pre_end)
  /\ last.ret = 0

\* C8 - Cursors after initialisation: when coreaudio_output_init has returned
\* success, source_buffer_start and source_buffer_end are both 0.
C8_CursorsAfterInit ==
  (last.op = "init" /\ last.ret = 0) =>
     (source_buffer_start = 0 /\ source_buffer_end = 0)

\* C9 - Start-up pre-fill: after a successful init, before AudioQueueStart the
\* callback was invoked exactly once per allocated block, each block was enqueued
\* exactly once as B zero bytes, and nothing else was enqueued.
C9_PrefillBeforeStart ==
  phase = "running" =>
     /\ StartAt # 0
     /\ LET pre == SubSeq(trace, 1, StartAt - 1)
        IN /\ \A i \in 0..(AQ_BUF_COUNT - 1) :
                /\ Cardinality({j \in 1..Len(pre) :
                      pre[j].ev = "callback" /\ pre[j].buf = i}) = 1
                /\ Cardinality({j \in 1..Len(pre) :
                      pre[j].ev = "enqueue" /\ pre[j].buf = i}) = 1
           /\ Len(EnqueuedIn(pre)) = AQ_BUF_COUNT
           /\ \A j \in 1..Len(pre) :
                pre[j].ev = "enqueue" =>
                   /\ DOMAIN pre[j].data = 0..(BlockSize - 1)
                   /\ AllZero(pre[j].data)
                   /\ pre[j].size = BlockSize

\* init has just returned success: the queue was started last
C9_Witness ==
  /\ last.op = "init" /\ last.ret = 0 /\ phase = "running"
  /\ StartAt = Len(trace)
  /\ Len(EnqueuedIn(trace)) = AQ_BUF_COUNT

\* whether every step of the initialisation the trace records succeeded
InitStepsOk ==
  /\ Len(trace) > 0 /\ trace[1].ev = "new" /\ trace[1].ok
  /\ \A j \in 1..Len(trace) : trace[j].ev # "allocfail"
  /\ StartAt # 0 /\ trace[StartAt].ok

\* which step failed, as the trace records it
InitFailure ==
  IF ~trace[1].ok THEN "new"
  ELSE IF \E j \in 1..Len(trace) : trace[j].ev = "allocfail" THEN "alloc"
  ELSE IF ~trace[StartAt].ok THEN "start"
  ELSE "none"

\* C10 as stated - the code init returns tells the three failure kinds apart:
\* the code returned for one kind of failure is returned for that kind only.
C10_DistinctCodes ==
  last.op = "init" =>
     \A kind \in {"new", "alloc", "start", "none"} :
        last.ret = InitRet(kind) => InitFailure = kind

\* C10 as amended - init returns 0 exactly when queue creation, every block
\* allocation and the queue start all succeed, and 1 on each of the three kinds
\* of failure.
C10_FailureReported ==
  last.op = "init" =>
     /\ (last.ret = 0 <=> InitStepsOk)
     /\ (~InitStepsOk => last.ret = 1)

\* init failed at the allocation of the second block, after the first pre-fill
C10_Witness ==
  /\ last.op = "init" /\ last.ret = 1
  /\ InitFailure = "alloc"
  /\ Len(EnqueuedIn(trace)) = 1

----------------------------------------------------------------------------
\* C11 as stated - Cursor range: between completed operations both
\* source_buffer_start and source_buffer_end are in [0, C).
C11_CursorsBelowCapacity ==
  /\ source_buffer_start \in 0..(Capacity - 1)
  /\ source_buffer_end \in 0..(Capacity - 1)

\* C11 as amended - between completed operations source_buffer_start is in
\* [0, C) and source_buffer_end is in [0, C]: the write cursor is left equal to C
\* by an ingest that ends at the physical end of storage.
C11_CursorRange ==
  /\ source_buffer_start \in 0..(Capacity - 1)
  /\ source_buffer_end \in 0..Capacity

\* an ingest has just left the write cursor at C, and a callback has wrapped the
\* read cursor before
C11_Witness ==
  /\ last.op = "send" /\ last.n > 0
  /\ source_buffer_end = Capacity
  /\ source_buffer_start > 0
  /\ feeds > 0

\* C12 - Zero-length chunk is a no-op: coreaudio_output_send with audio_size = 0
\* leaves storage, source_buffer_start and source_buffer_end as they were and
\* returns 0.
C12_ZeroLengthNoOp ==
  (last.op = "send" /\ last.n = 0) =>
     /\ source_buffer = last.pre_buf
     /\ source_buffer_start = last.pre_start
     /\ source_buffer_end = last.pre_end
     /\ last.iters = 0
     /\ last.ret = 0

\* an empty chunk handed in while the write cursor sits at C
C12_Witness ==
  /\ last.op = "send" /\ last.n = 0
  /\ last.pre_end = Capacity
  /\ sent > 0

\* C16 as stated - Cursor ownership: a callback leaves source_buffer_end and the
\* storage unchanged; an ingest leaves source_buffer_start unchanged.
C16_CursorOwnership ==
  /\ last.op = "callback" =>
       (source_buffer_end = last.pre_end /\ source_buffer = last.pre_buf)
  /\ last.op = "send" => source_buffer_start = last.pre_start

\* C16 as amended - a callback leaves the storage unchanged and leaves
\* source_buffer_end unchanged except that it resets it from C to 0 when the read
\* cursor reaches C too (lines 55-60); an ingest leaves source_buffer_start
\* unchanged.
C16_CursorOwnershipAmended ==
  /\ last.op = "callback" =>
       /\ source_buffer = last.pre_buf
       /\ \/ source_buffer_end = last.pre_end
          \/ /\ last.pre_end = Capacity
             /\ last.pre_start + last.copyA = Capacity
             /\ source_buffer_end = 0
             /\ source_buffer_start = 0
  /\ last.op = "send" => source_buffer_start = last.pre_start

\* a callback that read up to the end of the ring and reset the write cursor
C16_Witness ==
  /\ last.op = "callback"
  /\ last.pre_end = Capacity
  /\ source_buffer_end = 0
  /\ last.copyA > 0

\* C17 - Write with wrap-around: after an ingest of n >= 1 bytes at write cursor
\* w, storage[(w + i) mod C] = chunk[i] for the last min(n, C) indices i, every
\* other storage byte is unchanged, and the write cursor is congruent to w + n
\* modulo C.
C17_WriteWraps ==
  (last.op = "send" /\ last.n >= 1) =>
     LET w == last.pre_end
         n == last.n
         keep == Min(n, Capacity)
         span == {(w + i) % Capacity : i \in (n - keep)..(n - 1)}
     IN /\ \A i \in (n - keep)..(n - 1) :
             source_buffer[(w + i) % Capacity] = last.audio[i]
        /\ \A j \in 0..(Capacity - 1) :
             j \notin span => source_buffer[j] = last.pre_buf[j]
        /\ source_buffer_end % Capacity = (w + n) % Capacity

\* an ingest shorter than the ring that crossed the physical end of storage
C17_Witness ==
  /\ last.op = "send"
  /\ last.n < Capacity
  /\ last.pre_end < Capacity
  /\ last.pre_end + last.n > Capacity
  /\ last.iters = 2

\* C18 - Read across the physical end: from start > end with B > C - start, one
\* callback copies storage[start .. C) and then storage[0 .. m), where
\* m = min(end, B - (C - start)), in that order (the head of the unread data
\* storage[start .. C) ++ storage[0 .. end)), and leaves the read cursor at m.
C18_ReadWraps ==
  (/\ last.op = "callback"
   /\ last.pre_start > last.pre_end
   /\ BlockSize > Capacity - last.pre_start) =>
     LET a == Capacity - last.pre_start
         m == Min(last.pre_end, BlockSize - a)
     IN /\ last.copyA = a
        /\ last.copyB = m
        /\ \A i \in 0..(BlockSize - 1) :
             last.data[i] = IF i < a THEN source_buffer[last.pre_start + i]
                            ELSE IF i < a + m THEN source_buffer[i - a]
                            ELSE 0
        /\ source_buffer_start = m

\* a callback that copied a tail segment and then a head segment holding data
C18_Witness ==
  /\ last.op = "callback"
  /\ last.pre_start > last.pre_end
  /\ last.copyA > 0 /\ last.copyA < BlockSize
  /\ last.copyB > 0
  /\ last.data[last.copyA] # 0

\* C19 - Sequential memory safety: with non-overlapping init, ingest and callback
\* calls, every memcpy and memset stays inside the storage, the block and the
\* chunk, and no unsigned subtraction that computes a length goes below zero.
C19_MemorySafe ==
  /\ last.op = "callback" => (~last.oob /\ ~last.wrapped)
  /\ last.op = "send" => (~last.oob /\ ~last.wrapped)
  /\ last.op = "init" => ~last.unsafe

\* an ingest that wrote up to the last storage byte and went on from index 0
C19_Witness ==
  /\ last.op = "send"
  /\ last.pre_end > 0 /\ last.pre_end < Capacity
  /\ last.n > Capacity - last.pre_end
  /\ last.iters >= 2
  /\ ~last.oob

\* C15 - Eventual silence: once the producer has stopped and the callback keeps
\* being invoked, from some point on every block handed to the device is all
\* zero; the stale bytes of the storage are not replayed for ever.
C15_EventualSilence ==
  <>[](last.op = "callback" => AllZero(last.data))

\* C13 - Bounded concurrent reads: with one send and one callback interleaved at
\* their reads and writes of ca_data, the read cursor never exceeds C, every copy
\* out of the storage lies inside [0, C) and is no longer than the bytes still
\* wanted, and available_size never wraps below zero.
C13_BoundedConcurrentReads ==
  /\ source_buffer_start <= Capacity
  /\ ~cb.oob
  /\ ~cb.wrapped

\* C14 - No lost write-cursor update: after one ingest of n bytes with one
\* concurrent callback, both finished, the write cursor equals (its value before
\* the ingest + n) modulo C.
C14_NoLostUpdate ==
  (snd.pc = "done" /\ snd.raced /\ ~InFlight(cb) /\ phase = "running") =>
     source_buffer_end % Capacity = (snd.pre_end + snd.size) % Capacity

====
